---------------------------- MODULE Spec2Model ----------------------------
(***************************************************************************)
(* A model of sdl3-rs src/sdl3/pixels.rs: the pixel-format tables          *)
(* (PixelFormatEnum, PixelFormat and its size / alpha queries), the        *)
(* Palette wrapper around the native colour table, and Color.              *)
(*                                                                         *)
(* An SDL_PixelFormat code is written as the name of its SDL_PixelFormat   *)
(* constant ("RGB24" is SDL_PixelFormat::RGB24); distinct constants are    *)
(* distinct codes.  A PixelFormatEnum variant is written as its name.      *)
(***************************************************************************)
EXTENDS Integers, Sequences, FiniteSets

VARIABLES
    pf,        \* the PixelFormat value under inspection: [raw |-> code]
    origin,    \* the PixelFormatEnum variant pf was converted from, or "raw"
    call,      \* the last query made of pf: [op, a, b, ret]
    tables,    \* native palettes the boundary has handed out, by handle 1..Len
    owned,     \* handles held by Palette values that are in scope
    plog,      \* boundary calls issued by the last Palette operation
    pcall,     \* the last Palette operation: [op, arg, ret]
    color,     \* a Color value
    orig,      \* the Color it was constructed as
    inverts,   \* number of invert() calls applied to it since
    cret       \* outcome of the last Color operation

fmtVars == <<pf, origin, call>>
palVars == <<tables, owned, plog, pcall>>
colVars == <<color, orig, inverts, cret>>
vars == <<pf, origin, call, tables, owned, plog, pcall,
          color, orig, inverts, cret>>

---------------------------------------------------------------------------
(* Bounds of the model. *)

MaxDim == 8       \* pitch and height range over 0..MaxDim
MaxPixels == 10   \* num_of_pixels ranges over 0..MaxPixels
MaxColors == 2    \* small palette sizes range over 0..MaxColors
MaxTables == 2    \* native palettes the boundary hands out before it only fails
MaxChan == 1      \* channel values: 0..MaxChan and the same distance from 255
MaxInverts == 3   \* invert() calls followed on one Color

---------------------------------------------------------------------------
(* PixelFormatEnum and SDL_PixelFormat codes. *)

\* The variants that carry an SDL_PixelFormat constant of their own.
CanonicalVariants ==
    { "Unknown", "Index1LSB", "Index1MSB", "Index4LSB", "Index4MSB", "Index8",
      "RGB332", "XRGB4444", "XBGR4444", "XRGB1555", "XBGR1555",
      "ARGB4444", "RGBA4444", "ABGR4444", "BGRA4444",
      "ARGB1555", "RGBA5551", "ABGR1555", "BGRA5551",
      "RGB565", "BGR565", "RGB24", "BGR24",
      "XRGB8888", "RGBX8888", "XBGR8888", "BGRX8888",
      "ARGB8888", "RGBA8888", "ABGR8888", "BGRA8888", "ARGB2101010",
      "YV12", "IYUV", "YUY2", "UYVY", "YVYU" }

\* The variants declared as `Name = Other as isize`.
AliasVariants == { "RGB444", "BGR444", "RGB555", "BGR555", "RGB888", "BGR888" }

PixelFormatEnum == CanonicalVariants \cup AliasVariants

\* The discriminant of each variant, as the enum declares it.
Discriminant(v) ==
    CASE v = "Unknown"     -> "UNKNOWN"
      [] v = "Index1LSB"   -> "INDEX1LSB"
      [] v = "Index1MSB"   -> "INDEX1MSB"
      [] v = "Index4LSB"   -> "INDEX4LSB"
      [] v = "Index4MSB"   -> "INDEX4MSB"
      [] v = "Index8"      -> "INDEX8"
      [] v = "RGB332"      -> "RGB332"
      [] v = "XRGB4444"    -> "XRGB4444"
      [] v = "RGB444"      -> "XRGB4444"
      [] v = "XBGR4444"    -> "XBGR4444"
      [] v = "BGR444"      -> "XBGR4444"
      [] v = "XRGB1555"    -> "XRGB1555"
      [] v = "RGB555"      -> "XRGB1555"
      [] v = "XBGR1555"    -> "XBGR1555"
      [] v = "BGR555"      -> "XBGR1555"
      [] v = "ARGB4444"    -> "ARGB4444"
      [] v = "RGBA4444"    -> "RGBA4444"
      [] v = "ABGR4444"    -> "ABGR4444"
      [] v = "BGRA4444"    -> "BGRA4444"
      [] v = "ARGB1555"    -> "ARGB1555"
      [] v = "RGBA5551"    -> "RGBA5551"
      [] v = "ABGR1555"    -> "ABGR1555"
      [] v = "BGRA5551"    -> "BGRA5551"
      [] v = "RGB565"      -> "RGB565"
      [] v = "BGR565"      -> "BGR565"
      [] v = "RGB24"       -> "RGB24"
      [] v = "BGR24"       -> "BGR24"
      [] v = "XRGB8888"    -> "XRGB8888"
      [] v = "RGB888"      -> "XRGB8888"
      [] v = "RGBX8888"    -> "RGBX8888"
      [] v = "XBGR8888"    -> "XBGR8888"
      [] v = "BGR888"      -> "XBGR8888"
      [] v = "BGRX8888"    -> "BGRX8888"
      [] v = "ARGB8888"    -> "ARGB8888"
      [] v = "RGBA8888"    -> "RGBA8888"
      [] v = "ABGR8888"    -> "ABGR8888"
      [] v = "BGRA8888"    -> "BGRA8888"
      [] v = "ARGB2101010" -> "ARGB2101010"
      [] v = "YV12"        -> "YV12"
      [] v = "IYUV"        -> "IYUV"
      [] v = "YUY2"        -> "YUY2"
      [] v = "UYVY"        -> "UYVY"
      [] v = "YVYU"        -> "YVYU"

\* SDL_PixelFormat codes the file never names: a PixelFormat can still wrap
\* them (from_ll, From<i64>, from_masks).
ForeignCodes ==
    { "INDEX2LSB", "INDEX2MSB", "XRGB2101010", "XBGR2101010", "ABGR2101010",
      "RGB48", "RGBA64", "NV12", "NV21", "P010", "EXTERNAL_OES", "MJPG" }

\* Every code a PixelFormat may wrap in this model.
RawCodes == { Discriminant(v) : v \in PixelFormatEnum } \cup ForeignCodes

\* PixelFormat::from_ll (impl_raw_constructor!): wraps the code as given.
from_ll(raw) == [raw |-> raw]

\* PixelFormatEnum::as_pixel_format: SDL_PixelFormat(*self as i32).
as_pixel_format(v) == [raw |-> Discriminant(v)]

\* impl From<PixelFormatEnum> for PixelFormat.
from_enum(v) == as_pixel_format(v)

\* Result values.
Ok(x) == [kind |-> "ok", v |-> x]
Err(x) == [kind |-> "err", v |-> x]
Value(x) == [kind |-> "value", v |-> x]
Panic == [kind |-> "panic", v |-> 0]
NoRet == [kind |-> "none", v |-> 0]

---------------------------------------------------------------------------
(* PixelFormat queries. *)

\* byte_size_from_pitch_and_height counting one chroma plane instead of two.
byte_size_from_pitch_and_height_one_plane(self, pitch, height) ==
    IF self.raw \in { "YV12", "IYUV" }
    THEN Value(pitch * height + (((pitch \div 2) * height) \div 2))
    ELSE Value(pitch * height)

\* PixelFormat::byte_size_from_pitch_and_height.  Rust's `/` and `*` share
\* one precedence level and associate to the left, so
\* `pitch / 2 * height / 2` is ((pitch / 2) * height) / 2.
byte_size_from_pitch_and_height(self, pitch, height) ==
    IF self.raw \in { "YV12", "IYUV" }
    THEN Value(pitch * height + 2 * ((((pitch \div 2) * height)) \div 2))
    ELSE Value(pitch * height)

\* PixelFormat::byte_size_of_pixels is `match self.raw { ... }`: the arms in
\* source order; the last arm (the listed unsupported codes and `_`) panics.
byte_size_of_pixels_match(raw, num_of_pixels) ==
    CASE raw = "RGB332" -> Value(num_of_pixels)
      [] raw \in { "XRGB4444", "XRGB1555", "XBGR1555",
                        "ARGB4444", "RGBA4444", "ABGR4444", "BGRA4444",
                        "ARGB1555", "RGBA5551", "ABGR1555", "BGRA5551",
                        "RGB565", "BGR565" } -> Value(num_of_pixels * 2)
      [] raw \in { "RGB24", "BGR24" } -> Value(num_of_pixels * 3)
      [] raw \in { "XRGB8888", "RGBX8888", "XBGR8888", "BGRX8888",
                        "ARGB8888", "RGBA8888", "ABGR8888", "BGRA8888",
                        "ARGB2101010" } -> Value(num_of_pixels * 4)
      [] raw \in { "YV12", "IYUV" } -> Value((num_of_pixels \div 2) * 3)
      [] raw \in { "YUY2", "UYVY", "YVYU" } -> Value(num_of_pixels * 2)
      [] raw = "INDEX8" -> Value(num_of_pixels)
      [] OTHER -> Panic

\* byte_size_of_pixels with 4-bit indexed formats given a size.
byte_size_of_pixels_index4(self, num_of_pixels) ==
    IF self.raw \in { "INDEX4LSB", "INDEX4MSB" }
    THEN Value(num_of_pixels \div 2)
    ELSE byte_size_of_pixels_match(self.raw, num_of_pixels)

byte_size_of_pixels(self, num_of_pixels) ==
    byte_size_of_pixels_match(self.raw, num_of_pixels)

\* PixelFormat::byte_size_per_pixel: same shape, one pixel.
byte_size_per_pixel_match(raw) ==
    CASE raw = "RGB332" -> Value(1)
      [] raw \in { "XRGB4444", "XRGB1555", "XBGR1555",
                        "ARGB4444", "RGBA4444", "ABGR4444", "BGRA4444",
                        "ARGB1555", "RGBA5551", "ABGR1555", "BGRA5551",
                        "RGB565", "BGR565" } -> Value(2)
      [] raw \in { "RGB24", "BGR24" } -> Value(3)
      [] raw \in { "XRGB8888", "RGBX8888", "XBGR8888", "BGRX8888",
                        "ARGB8888", "RGBA8888", "ABGR8888", "BGRA8888",
                        "ARGB2101010" } -> Value(4)
      [] raw \in { "YV12", "IYUV" } -> Value(1)
      [] raw \in { "YUY2", "UYVY", "YVYU" } -> Value(2)
      [] raw = "INDEX8" -> Value(1)
      [] OTHER -> Panic

\* byte_size_per_pixel with XBGR4444 added to the 2-byte arm of this table
\* only.
byte_size_per_pixel_xbgr4444(self) ==
    IF self.raw = "XBGR4444" THEN Value(2) ELSE byte_size_per_pixel_match(self.raw)

byte_size_per_pixel(self) == byte_size_per_pixel_match(self.raw)

\* supports_alpha with the 10-10-10-2 format left out of the list.
supports_alpha_no_2101010(self) ==
    self.raw \in { "ARGB4444", "ARGB1555", "ARGB8888",
                   "ABGR4444", "ABGR1555", "ABGR8888",
                   "BGRA4444", "BGRA5551", "BGRA8888",
                   "RGBA4444", "RGBA5551", "RGBA8888" }

\* PixelFormat::supports_alpha: the matches! list.
supports_alpha(self) ==
    self.raw \in { "ARGB4444", "ARGB1555", "ARGB8888", "ARGB2101010",
                   "ABGR4444", "ABGR1555", "ABGR8888",
                   "BGRA4444", "BGRA5551", "BGRA8888",
                   "RGBA4444", "RGBA5551", "RGBA8888" }

\* impl TryFrom<PixelFormat> for PixelFormatEnum is `match value.raw { ... }`:
\* the arms in source order; `_` is the error.
try_from_match(raw) ==
    CASE raw = "UNKNOWN"     -> Ok("Unknown")
      [] raw = "INDEX1LSB"   -> Ok("Index1LSB")
      [] raw = "INDEX1MSB"   -> Ok("Index1MSB")
      [] raw = "INDEX4LSB"   -> Ok("Index4LSB")
      [] raw = "INDEX4MSB"   -> Ok("Index4MSB")
      [] raw = "INDEX8"      -> Ok("Index8")
      [] raw = "RGB332"      -> Ok("RGB332")
      [] raw = "XRGB4444"    -> Ok("XRGB4444")
      [] raw = "XBGR4444"    -> Ok("XBGR4444")
      [] raw = "XRGB1555"    -> Ok("XRGB1555")
      [] raw = "XBGR1555"    -> Ok("XBGR1555")
      [] raw = "ARGB4444"    -> Ok("ARGB4444")
      [] raw = "RGBA4444"    -> Ok("RGBA4444")
      [] raw = "ABGR4444"    -> Ok("ABGR4444")
      [] raw = "BGRA4444"    -> Ok("BGRA4444")
      [] raw = "ARGB1555"    -> Ok("ARGB1555")
      [] raw = "RGBA5551"    -> Ok("RGBA5551")
      [] raw = "ABGR1555"    -> Ok("ABGR1555")
      [] raw = "BGRA5551"    -> Ok("BGRA5551")
      [] raw = "RGB565"      -> Ok("RGB565")
      [] raw = "BGR565"      -> Ok("BGR565")
      [] raw = "RGB24"       -> Ok("RGB24")
      [] raw = "BGR24"       -> Ok("BGR24")
      [] raw = "XRGB8888"    -> Ok("XRGB8888")
      [] raw = "RGBX8888"    -> Ok("RGBX8888")
      [] raw = "XBGR8888"    -> Ok("XBGR8888")
      [] raw = "BGRX8888"    -> Ok("BGRX8888")
      [] raw = "ARGB8888"    -> Ok("ARGB8888")
      [] raw = "RGBA8888"    -> Ok("RGBA8888")
      [] raw = "ABGR8888"    -> Ok("ABGR8888")
      [] raw = "BGRA8888"    -> Ok("BGRA8888")
      [] raw = "ARGB2101010" -> Ok("ARGB2101010")
      [] raw = "YV12"        -> Ok("YV12")
      [] raw = "IYUV"        -> Ok("IYUV")
      [] raw = "YUY2"        -> Ok("YUY2")
      [] raw = "UYVY"        -> Ok("UYVY")
      [] raw = "YVYU"        -> Ok("YVYU")
      [] OTHER -> Err("Unknown pixel format")

\* try_from with one arm naming its neighbour's variant.
try_from_swapped(value) ==
    IF value.raw = "BGR24" THEN Ok("RGB24") ELSE try_from_match(value.raw)

try_from(value) == try_from_match(value.raw)

---------------------------------------------------------------------------
(* The PixelFormat state machine: a PixelFormat value is made (from a      *)
(* variant or from a raw code) and then queried; `call` is the last query. *)

NoCall == [op |-> "none", a |-> 0, b |-> 0, ret |-> NoRet]

InitFmt ==
    /\ pf = from_ll("UNKNOWN")
    /\ origin = "raw"
    /\ call = NoCall

\* PixelFormat::from(v) for an enum variant v.
FromEnum ==
    \E v \in PixelFormatEnum :
        /\ pf' = from_enum(v)
        /\ origin' = v
        /\ call' = NoCall
        /\ UNCHANGED <<palVars, colVars>>

\* PixelFormat::from_ll(raw) for any raw code.
FromLL ==
    \E raw \in RawCodes :
        /\ pf' = from_ll(raw)
        /\ origin' = "raw"
        /\ call' = NoCall
        /\ UNCHANGED <<palVars, colVars>>

Query(op, a, b, ret) ==
    /\ call' = [op |-> op, a |-> a, b |-> b, ret |-> ret]
    /\ UNCHANGED <<pf, origin, palVars, colVars>>

TryFrom == Query("try_from", 0, 0, try_from(pf))

ByteSizeFromPitchAndHeight ==
    \E pitch \in 0..MaxDim, height \in 0..MaxDim :
        Query("byte_size_from_pitch_and_height", pitch, height,
              byte_size_from_pitch_and_height(pf, pitch, height))

ByteSizeOfPixels ==
    \E n \in 0..MaxPixels :
        Query("byte_size_of_pixels", n, 0, byte_size_of_pixels(pf, n))

ByteSizePerPixel == Query("byte_size_per_pixel", 0, 0, byte_size_per_pixel(pf))

SupportsAlpha ==
    Query("supports_alpha", 0, 0, [kind |-> "value", v |-> supports_alpha(pf)])

NextFmt ==
    \/ FromEnum
    \/ FromLL
    \/ TryFrom
    \/ ByteSizeFromPitchAndHeight
    \/ ByteSizeOfPixels
    \/ ByteSizePerPixel
    \/ SupportsAlpha

---------------------------------------------------------------------------
(* Machine integers.  A usize is held as three fields so that values at    *)
(* and above 2^31 and 2^32 stay exact:                                     *)
(*     value = hi * 2^32 + b31 * 2^31 + lo,   b31 \in 0..1, lo < 2^31.     *)
(* A u32 is the same without hi.  A c_int is an ordinary integer.          *)

I32_MAX == 2147483647

USize(hi, b31, lo) == [hi |-> hi, b31 |-> b31, lo |-> lo]

\* a > b on usize.
usize_gt(a, b) ==
    \/ a.hi > b.hi
    \/ a.hi = b.hi /\ a.b31 > b.b31
    \/ a.hi = b.hi /\ a.b31 = b.b31 /\ a.lo > b.lo

\* u32::MAX as usize.
u32_max == USize(0, 1, I32_MAX)

\* `x as u32` for a usize x: the low 32 bits.
as_u32(x) == [b31 |-> x.b31, lo |-> x.lo]

\* `x as c_int` for a usize x: the low 32 bits read as two's complement.
as_c_int(x) == IF x.b31 = 1 THEN (x.lo - I32_MAX) - 1 ELSE x.lo

\* `n as usize` for a c_int n (sign-extending; hi = -1 stands for all ones).
c_int_as_usize(n) ==
    IF n >= 0 THEN USize(0, 0, n) ELSE USize(-1, 1, (n + I32_MAX) + 1)

\* crate::common::validate_int(value: u32, name): a value of 2^31 or more
\* does not fit the boundary's signed count.
validate_int(value) ==
    IF value.b31 = 1 THEN Err("IntegerOverflows") ELSE Ok(value.lo)

---------------------------------------------------------------------------
(* The boundary: SDL's palette calls.  `tbls` is the sequence of native    *)
(* palettes handed out so far; a handle is an index into it and NULL is 0. *)

NULL == 0

LogEntry(fn, h, first, n) == [fn |-> fn, h |-> h, first |-> first, n |-> n]

\* SDL_CreatePalette(ncolors): NULL, or a fresh palette of ncolors entries.
SDL_CreatePalette(ncolors, tbls, alloc_ok) ==
    IF alloc_ok
    THEN [raw |-> Len(tbls) + 1,
          tables |-> Append(tbls, [ncolors |-> ncolors, destroys |-> 0]),
          log |-> <<LogEntry("create", Len(tbls) + 1, 0, ncolors)>>]
    ELSE [raw |-> NULL, tables |-> tbls,
          log |-> <<LogEntry("create", NULL, 0, ncolors)>>]

\* SDL_SetPaletteColors(palette, colors, firstcolor, ncolors): reports
\* success or failure and leaves the entry count alone.
SDL_SetPaletteColors(raw, first, ncolors, set_ok) ==
    [result |-> set_ok, log |-> <<LogEntry("set", raw, first, ncolors)>>]

\* SDL_DestroyPalette(palette).
SDL_DestroyPalette(raw, tbls) ==
    [tables |-> IF raw \in 1..Len(tbls)
                THEN [tbls EXCEPT ![raw].destroys = @ + 1]
                ELSE tbls,
     log |-> <<LogEntry("destroy", raw, 0, 0)>>]

---------------------------------------------------------------------------
(* Palette. *)

\* A leaked Palette: a Drop that never reaches the boundary.
Palette_drop_leak(self, tbls) == [tables |-> tbls, log |-> <<>>]

\* impl Drop for Palette.
Palette_drop(self, tbls) == SDL_DestroyPalette(self.raw, tbls)

\* Palette::new with the clamp to u32::MAX left out.
Palette_new_unclamped(capacity, tbls, alloc_ok) ==
    LET checked == validate_int(as_u32(capacity))
    IN  IF checked.kind = "err"
        THEN [ret |-> Err(checked.v), tables |-> tbls, log |-> <<>>]
        ELSE LET c == SDL_CreatePalette(checked.v, tbls, alloc_ok)
             IN  [ret |-> IF c.raw = NULL THEN Err("get_error")
                                          ELSE Ok([raw |-> c.raw]),
                  tables |-> c.tables, log |-> c.log]

\* Palette::new(capacity): what it returns, the boundary's tables after it
\* and the boundary calls it made.
Palette_new(capacity, tbls, alloc_ok) ==
    LET clamped == IF usize_gt(capacity, u32_max) THEN u32_max ELSE capacity
        checked == validate_int(as_u32(clamped))
    IN  IF checked.kind = "err"
        THEN [ret |-> Err(checked.v), tables |-> tbls, log |-> <<>>]
        ELSE LET c == SDL_CreatePalette(checked.v, tbls, alloc_ok)
             IN  IF c.raw = NULL
                 THEN [ret |-> Err("get_error"), tables |-> c.tables, log |-> c.log]
                 ELSE [ret |-> Ok([raw |-> c.raw]), tables |-> c.tables, log |-> c.log]

\* Palette::with_colors with the batch-set count one short.
Palette_with_colors_short(colors_len, tbls, alloc_ok, set_ok) ==
    LET made == Palette_new(colors_len, tbls, alloc_ok)
    IN  IF made.ret.kind = "err"
        THEN made
        ELSE LET pal == made.ret.v
                 s == SDL_SetPaletteColors(pal.raw, 0, as_c_int(colors_len) - 1, set_ok)
             IN  IF ~s.result
                 THEN LET d == Palette_drop(pal, made.tables)
                      IN  [ret |-> Err("get_error"), tables |-> d.tables,
                           log |-> made.log \o s.log \o d.log]
                 ELSE [ret |-> Ok(pal), tables |-> made.tables,
                       log |-> made.log \o s.log]

\* Palette::with_colors(colors), colors given by its length.  `?` returns
\* new's error; indexing raw_colors[0] of an empty Vec panics, and the
\* unwinding drops `pal`; a failed batch-set returns Err and drops `pal`.
Palette_with_colors(colors_len, tbls, alloc_ok, set_ok) ==
    LET made == Palette_new(colors_len, tbls, alloc_ok)
    IN  IF made.ret.kind = "err"
        THEN made
        ELSE LET pal == made.ret.v
                 ncolors == as_c_int(colors_len)
             IN  IF colors_len = USize(0, 0, 0)
                 THEN LET d == Palette_drop(pal, made.tables)
                      IN  [ret |-> Panic, tables |-> d.tables,
                           log |-> made.log \o d.log]
                 ELSE LET s == SDL_SetPaletteColors(pal.raw, 0, ncolors, set_ok)
                      IN  IF ~s.result
                          THEN LET d == Palette_drop(pal, made.tables)
                               IN  [ret |-> Err("get_error"), tables |-> d.tables,
                                    log |-> made.log \o s.log \o d.log]
                          ELSE [ret |-> Ok(pal), tables |-> made.tables,
                                log |-> made.log \o s.log]

\* Palette::len: (*self.raw).ncolors as usize.
Palette_len(self, tbls) == c_int_as_usize(tbls[self.raw].ncolors)

\* Palette::is_empty.
Palette_is_empty(self, tbls) == Palette_len(self, tbls) = USize(0, 0, 0)

\* The capacities and slice lengths tried: small ones, and the ones around
\* 2^31 and 2^32.
Capacities ==
    { USize(0, 0, n) : n \in 0..MaxColors }
    \cup { USize(0, 0, I32_MAX), USize(0, 1, 0), USize(0, 1, I32_MAX),
           USize(1, 0, 0), USize(1, 1, 0) }
    \cup { USize(1, 0, n) : n \in 1..MaxColors }

NoPCall == [op |-> "none", arg |-> USize(0, 0, 0), ret |-> NoRet]

InitPal ==
    /\ tables = <<>>
    /\ owned = {}
    /\ plog = <<>>
    /\ pcall = NoPCall

\* The boundary can always refuse; it hands out at most MaxTables palettes.
CanAlloc(alloc_ok) == alloc_ok => Len(tables) < MaxTables

Keep(ret) == IF ret.kind = "ok" THEN owned \cup { ret.v } ELSE owned

PaletteNew ==
    \E capacity \in Capacities, alloc_ok \in BOOLEAN :
        /\ CanAlloc(alloc_ok)
        /\ LET r == Palette_new(capacity, tables, alloc_ok)
           IN  /\ tables' = r.tables
               /\ plog' = r.log
               /\ owned' = Keep(r.ret)
               /\ pcall' = [op |-> "new", arg |-> capacity, ret |-> r.ret]
        /\ UNCHANGED <<fmtVars, colVars>>

PaletteWithColors ==
    \E colors_len \in Capacities, alloc_ok \in BOOLEAN, set_ok \in BOOLEAN :
        /\ CanAlloc(alloc_ok)
        /\ LET r == Palette_with_colors(colors_len, tables, alloc_ok, set_ok)
           IN  /\ tables' = r.tables
               /\ plog' = r.log
               /\ owned' = Keep(r.ret)
               /\ pcall' = [op |-> "with_colors", arg |-> colors_len, ret |-> r.ret]
        /\ UNCHANGED <<fmtVars, colVars>>

\* A Palette in scope goes out of scope.
PaletteDrop ==
    \E p \in owned :
        LET d == Palette_drop(p, tables)
        IN  /\ tables' = d.tables
            /\ plog' = d.log
            /\ owned' = owned \ { p }
            /\ pcall' = [op |-> "drop", arg |-> USize(0, 0, 0), ret |-> Value(p.raw)]
            /\ UNCHANGED <<fmtVars, colVars>>

PaletteLen ==
    \E p \in owned :
        /\ pcall' = [op |-> "len", arg |-> USize(0, 0, 0),
                     ret |-> [kind |-> "value", v |-> Palette_len(p, tables), of |-> p]]
        /\ plog' = <<>>
        /\ UNCHANGED <<tables, owned, fmtVars, colVars>>

PaletteIsEmpty ==
    \E p \in owned :
        /\ pcall' = [op |-> "is_empty", arg |-> USize(0, 0, 0),
                     ret |-> [kind |-> "value", v |-> Palette_is_empty(p, tables), of |-> p]]
        /\ plog' = <<>>
        /\ UNCHANGED <<tables, owned, fmtVars, colVars>>

NextPal ==
    \/ PaletteNew
    \/ PaletteWithColors
    \/ PaletteDrop
    \/ PaletteLen
    \/ PaletteIsEmpty

---------------------------------------------------------------------------
(* Color. *)

U8_MAX == 255

\* a - b on u8: the wrapped difference, and whether it left 0..255.
u8_sub(a, b) == [v |-> (a - b) % (U8_MAX + 1), overflow |-> a - b < 0]

\* Color::RGBA.
Color_RGBA(r, g, b, a) == [r |-> r, g |-> g, b |-> b, a |-> a]

\* Color::RGB: alpha is 0xff.
Color_RGB(r, g, b) == [r |-> r, g |-> g, b |-> b, a |-> U8_MAX]

\* An invert that leaves alpha as it was.
Color_invert_keep_alpha(self) ==
    [ret |-> Color_RGBA(u8_sub(U8_MAX, self.r).v, u8_sub(U8_MAX, self.g).v,
                        u8_sub(U8_MAX, self.b).v, self.a),
     overflow |-> FALSE]

\* Color::invert: the new Color, and whether any subtraction overflowed.
Color_invert(self) ==
    LET r == u8_sub(U8_MAX, self.r)
        g == u8_sub(U8_MAX, self.g)
        b == u8_sub(U8_MAX, self.b)
        a == u8_sub(U8_MAX, self.a)
    IN  [ret |-> Color_RGBA(r.v, g.v, b.v, a.v),
         overflow |-> r.overflow \/ g.overflow \/ b.overflow \/ a.overflow]

\* The channel values tried: the ones near 0 and near 255.
ChannelValues == (0..MaxChan) \cup ((U8_MAX - MaxChan)..U8_MAX)

InitCol ==
    /\ color = Color_RGB(0, 0, 0)
    /\ orig = Color_RGB(0, 0, 0)
    /\ inverts = 0
    /\ cret = "constructed"

ColorRGB ==
    \E r \in ChannelValues, g \in ChannelValues, b \in ChannelValues :
        /\ color' = Color_RGB(r, g, b)
        /\ orig' = color'
        /\ inverts' = 0
        /\ cret' = "constructed"
        /\ UNCHANGED <<fmtVars, palVars>>

ColorRGBA ==
    \E r \in ChannelValues, g \in ChannelValues,
       b \in ChannelValues, a \in ChannelValues :
        /\ color' = Color_RGBA(r, g, b, a)
        /\ orig' = color'
        /\ inverts' = 0
        /\ cret' = "constructed"
        /\ UNCHANGED <<fmtVars, palVars>>

\* color = color.invert(); an overflowing subtraction panics.
ColorInvert ==
    /\ inverts < MaxInverts
    /\ cret # "panic"
    /\ LET i == Color_invert(color)
       IN  /\ cret' = IF i.overflow THEN "panic" ELSE "inverted"
           /\ color' = IF i.overflow THEN color ELSE i.ret
           /\ inverts' = IF i.overflow THEN inverts ELSE inverts + 1
    /\ UNCHANGED <<orig, fmtVars, palVars>>

NextCol ==
    \/ ColorRGB
    \/ ColorRGBA
    \/ ColorInvert

---------------------------------------------------------------------------
(* Specifications.  The three parts of the file share no state, so each is *)
(* also checked on its own with the other parts left at their initial      *)
(* values.                                                                 *)

Init == InitFmt /\ InitPal /\ InitCol

Next == NextFmt \/ NextPal \/ NextCol

Spec == Init /\ [][Next]_vars

SpecFormat == Init /\ [][NextFmt]_vars

SpecPalette == Init /\ [][NextPal]_vars

SpecColor == Init /\ [][NextCol]_vars

---------------------------------------------------------------------------
(* Properties of the PixelFormat part, checked under SpecFormat. *)

\* The codes of the enum's variants.
EnumCodes == { Discriminant(v) : v \in PixelFormatEnum }

\* C1: byte_size_from_pitch_and_height returns, for YV12 and IYUV,
\* pitch*height + 2*((pitch div 2)*(height div 2)), each chroma dimension
\* halved on its own, and pitch*height for every other format.
C1_PlanarSizeHalvesEachDimension ==
    call.op = "byte_size_from_pitch_and_height" =>
        call.ret = Value(IF pf.raw \in { "YV12", "IYUV" }
                         THEN call.a * call.b
                              + 2 * ((call.a \div 2) * (call.b \div 2))
                         ELSE call.a * call.b)

\* C2: byte_size_of_pixels(n) returns the value of the fixed table for every
\* supported format: 1, 2, 3 or 4 bytes a pixel by family, (n div 2)*3 for
\* planar YUV and 2*n for packed YUV.
C2_ByteSizeOfPixelsTable ==
    call.op = "byte_size_of_pixels" =>
        LET n == call.a
        IN  /\ pf.raw \in { "INDEX8", "RGB332" } => call.ret = Value(n)
            /\ pf.raw \in { "XRGB4444", "XBGR4444", "XRGB1555", "XBGR1555",
                            "ARGB4444", "RGBA4444", "ABGR4444", "BGRA4444",
                            "ARGB1555", "RGBA5551", "ABGR1555", "BGRA5551",
                            "RGB565", "BGR565" } => call.ret = Value(2 * n)
            /\ pf.raw \in { "RGB24", "BGR24" } => call.ret = Value(3 * n)
            /\ pf.raw \in { "XRGB8888", "RGBX8888", "XBGR8888", "BGRX8888",
                            "ARGB8888", "RGBA8888", "ABGR8888", "BGRA8888",
                            "ARGB2101010" } => call.ret = Value(4 * n)
            /\ pf.raw \in { "YV12", "IYUV" } => call.ret = Value((n \div 2) * 3)
            /\ pf.raw \in { "YUY2", "UYVY", "YVYU" } => call.ret = Value(2 * n)

\* C3: try_from is the partial inverse of as_pixel_format: a PixelFormat made
\* from variant v wraps v's code and converts back to v, or, for the six
\* alias variants, to the canonical variant with the same code; a code of no
\* variant gives the "Unknown pixel format" error.
C3_TryFromInvertsAsPixelFormat ==
    /\ origin \in PixelFormatEnum => pf.raw = Discriminant(origin)
    /\ call.op = "try_from" /\ origin \in PixelFormatEnum =>
        IF origin \in { "RGB444", "BGR444", "RGB555", "BGR555", "RGB888", "BGR888" }
        THEN /\ call.ret.kind = "ok"
             /\ call.ret.v \in CanonicalVariants
             /\ Discriminant(call.ret.v) = Discriminant(origin)
        ELSE call.ret = Ok(origin)
    /\ call.op = "try_from" /\ pf.raw \notin EnumCodes =>
        call.ret = Err("Unknown pixel format")

\* C3 witness: an alias variant converted to a PixelFormat and back.
C3_Witness ==
    /\ call.op = "try_from"
    /\ origin = "RGB444"
    /\ call.ret = Ok("XRGB4444")

\* C4: supports_alpha is true for exactly the thirteen ARGB / RGBA / ABGR /
\* BGRA formats and false for every other code.
C4_SupportsAlphaExactly ==
    call.op = "supports_alpha" =>
        call.ret.v = (pf.raw \in { "ARGB4444", "RGBA4444", "ABGR4444", "BGRA4444",
                                   "ARGB1555", "RGBA5551", "ABGR1555", "BGRA5551",
                                   "ARGB8888", "RGBA8888", "ABGR8888", "BGRA8888",
                                   "ARGB2101010" })

\* C4 witness: the query answered true for the 10-10-10-2 format.
C4_Witness ==
    /\ call.op = "supports_alpha"
    /\ pf.raw = "ARGB2101010"
    /\ call.ret.v = TRUE

\* C8: byte_size_of_pixels and byte_size_per_pixel panic, and return no size,
\* for Unknown, the 1-bit and 4-bit indexed formats and every code outside
\* the enum.
C8_UnsupportedFormatsPanic ==
    /\ call.op \in { "byte_size_of_pixels", "byte_size_per_pixel" }
    /\ \/ pf.raw \in { "UNKNOWN", "INDEX1LSB", "INDEX1MSB", "INDEX4LSB", "INDEX4MSB" }
       \/ pf.raw \notin EnumCodes
    => call.ret.kind = "panic"

\* C8 witness: a size asked of a 4-bit indexed format for a positive count.
C8_Witness ==
    /\ call.op = "byte_size_of_pixels"
    /\ pf.raw = "INDEX4LSB"
    /\ call.a = 2
    /\ call.ret.kind = "panic"

\* C9: byte_size_per_pixel is the byte_size_of_pixels table for one pixel:
\* the two panic for the same codes; where they do not, and the format is
\* not planar YUV, byte_size_of_pixels(n) = n * byte_size_per_pixel(); and
\* byte_size_per_pixel() is 1 for YV12 and IYUV.
C9_PerPixelIsTableCollapsed ==
    /\ call.op = "byte_size_of_pixels" =>
        LET per == byte_size_per_pixel(pf)
        IN  /\ (call.ret.kind = "panic") <=> (per.kind = "panic")
            /\ per.kind = "value" /\ pf.raw \notin { "YV12", "IYUV" } =>
                   call.ret = Value(call.a * per.v)
    /\ call.op = "byte_size_per_pixel" =>
        /\ \A n \in 0..MaxPixels :
               (byte_size_of_pixels(pf, n).kind = "panic") <=> (call.ret.kind = "panic")
        /\ pf.raw \in { "YV12", "IYUV" } => call.ret = Value(1)

\* C9 witness: ten 24-bit pixels take thirty bytes, three a pixel.
C9_Witness ==
    /\ call.op = "byte_size_of_pixels"
    /\ pf.raw = "RGB24"
    /\ call.a = 10
    /\ call.ret = Value(30)
    /\ byte_size_per_pixel(pf) = Value(3)

\* C11: the three size queries agree on a tightly packed image: for every
\* format byte_size_per_pixel supports, every width w and height h (both
\* even for YV12 and IYUV), with pitch = w * byte_size_per_pixel(),
\* byte_size_from_pitch_and_height(pitch, h) = byte_size_of_pixels(w * h).
C11_SizeQueriesAgreeWhenPacked ==
    call.op = "byte_size_from_pitch_and_height" =>
        LET per == byte_size_per_pixel(pf)
        IN  per.kind = "value" =>
                \A w \in 0..MaxDim :
                    /\ call.a = w * per.v
                    /\ pf.raw \in { "YV12", "IYUV" } => w % 2 = 0 /\ call.b % 2 = 0
                    => call.ret = byte_size_of_pixels(pf, w * call.b)

\* C11 witness: a 4 x 2 planar YUV image, pitch 4: 8 luma bytes and two
\* chroma planes of 2 bytes, the 12 bytes byte_size_of_pixels(8) gives.
C11_Witness ==
    /\ call.op = "byte_size_from_pitch_and_height"
    /\ pf.raw = "YV12"
    /\ call.a = 4 * byte_size_per_pixel(pf).v
    /\ call.b = 2
    /\ call.ret = Value(12)
    /\ byte_size_of_pixels(pf, 4 * 2) = Value(12)

---------------------------------------------------------------------------
(* Properties of the Palette part, checked under SpecPalette. *)

\* The entries of the last operation's boundary log made by call `fn`.
LogOf(fn) == { i \in 1..Len(plog) : plog[i].fn = fn }

\* The result is Err(msg), or Ok(pal).
IsErr(ret, msg) == ret.kind = "err" /\ ret.v = msg

IsOk(ret, pal) == ret.kind = "ok" /\ ret.v = pal

\* A usize above 2^31 - 1.
AboveI32Max(x) == x.hi > 0 \/ x.b31 = 1

\* C5: every native table a create call returned is destroyed exactly once:
\* never while its Palette is in scope, once when the Palette is dropped or
\* when with_colors fails or panics after allocating, never twice; and no
\* destroy is issued for a NULL create or for a request validation rejected.
C5_TableDestroyedExactlyOnce ==
    /\ \A h \in 1..Len(tables) :
           tables[h].destroys = IF [raw |-> h] \in owned THEN 0 ELSE 1
    /\ \A i \in LogOf("destroy") : plog[i].h \in 1..Len(tables)
    /\ \A i \in LogOf("create") : plog[i].h = NULL => LogOf("destroy") = {}
    /\ pcall.op \in { "new", "with_colors" } /\ IsErr(pcall.ret, "IntegerOverflows") =>
           plog = <<>>
    /\ pcall.op = "with_colors" /\ pcall.ret.kind # "ok" =>
           \A i \in LogOf("create") :
               plog[i].h # NULL =>
                   Cardinality({ j \in LogOf("destroy") : plog[j].h = plog[i].h }) = 1

\* C5 witness: with_colors allocated a table, the batch-set failed, and the
\* table was destroyed on the way out.
C5_Witness ==
    /\ pcall.op = "with_colors"
    /\ IsErr(pcall.ret, "get_error")
    /\ Len(plog) = 3
    /\ plog[1].fn = "create" /\ plog[1].h # NULL
    /\ plog[3].fn = "destroy" /\ plog[3].h = plog[1].h
    /\ tables[plog[1].h].destroys = 1

\* C6: Palette::new(capacity) with capacity above 2^31 - 1 (2^32 and above
\* included) returns the validation error, does not panic and issues no
\* create request; with capacity at most 2^31 - 1 it issues one create
\* request for exactly capacity entries and returns the boundary's error if
\* that yields NULL.
C6_NewValidatesCapacity ==
    pcall.op = "new" =>
        IF AboveI32Max(pcall.arg)
        THEN /\ IsErr(pcall.ret, "IntegerOverflows")
             /\ plog = <<>>
        ELSE /\ Len(plog) = 1
             /\ plog[1].fn = "create"
             /\ plog[1].n = pcall.arg.lo
             /\ plog[1].h = NULL => IsErr(pcall.ret, "get_error")
             /\ plog[1].h # NULL => IsOk(pcall.ret, [raw |-> plog[1].h])

\* C6 witness: a capacity of 2^32 + 1, whose low 32 bits are 1, was refused.
C6_Witness ==
    /\ pcall.op = "new"
    /\ pcall.arg = USize(1, 0, 1)
    /\ IsErr(pcall.ret, "IntegerOverflows")

\* C7: with_colors(colors) for a non-empty colors of at most 2^31 - 1 entries
\* fails only if allocation or the batch-set fails; the Palette it returns
\* has len() = colors.len(); the batch-set was issued once, from index 0, for
\* colors.len() entries, the count allocated; and is_empty() is true iff
\* len() = 0.
C7_WithColorsLen ==
    /\ pcall.op = "with_colors" /\ pcall.arg # USize(0, 0, 0)
           /\ ~AboveI32Max(pcall.arg) =>
        /\ pcall.ret.kind \in { "ok", "err" }
        /\ pcall.ret.kind = "err" =>
               \/ \E i \in LogOf("create") : plog[i].h = NULL
               \/ LogOf("set") # {} /\ LogOf("destroy") # {}
    /\ pcall.op = "with_colors" /\ pcall.ret.kind = "ok" =>
        /\ Palette_len(pcall.ret.v, tables) = pcall.arg
        /\ plog = << LogEntry("create", pcall.ret.v.raw, 0, pcall.arg.lo),
                     LogEntry("set", pcall.ret.v.raw, 0, pcall.arg.lo) >>
    /\ pcall.op = "is_empty" =>
        (pcall.ret.v <=> Palette_len(pcall.ret.of, tables) = USize(0, 0, 0))

\* C7 witness: a Palette made from two colors.
C7_Witness ==
    /\ pcall.op = "with_colors"
    /\ pcall.arg = USize(0, 0, 2)
    /\ pcall.ret.kind = "ok"
    /\ Palette_len(pcall.ret.v, tables) = USize(0, 0, 2)

---------------------------------------------------------------------------
(* Properties of the Color part, checked under SpecColor. *)

\* C10: invert replaces every channel, alpha included, by 255 minus its
\* value, never underflows, and applied twice gives the Color back.
C10_InvertSelfInverse ==
    /\ cret # "panic"
    /\ inverts % 2 = 1 =>
        /\ color.r = 255 - orig.r
        /\ color.g = 255 - orig.g
        /\ color.b = 255 - orig.b
        /\ color.a = 255 - orig.a
    /\ inverts % 2 = 0 => color = orig

\* C10 witness: a Color with a translucent alpha inverted twice.
C10_Witness ==
    /\ inverts = 2
    /\ cret = "inverted"
    /\ orig.a = 1
    /\ orig.r = 254
    /\ color = orig

=============================================================================
